---- MODULE Spec2Model ----
(***************************************************************************)
(* Model of src-tauri/src/lib.rs: the data-directory file store            *)
(* (write/read/list/exists/delete/copy-in) and copy_html_with_images with  *)
(* its percent decoder.                                                    *)
(*                                                                         *)
(* A Rust &str / String is modelled as its UTF-8 byte sequence (a sequence *)
(* of integers 0..255); byte offsets are 0-based as in the source.  A      *)
(* panic (slicing a str off a char boundary) is an outcome of its own.     *)
(* Paths follow POSIX rules: '/' separates components, ".." is resolved by *)
(* the operating system, '\' is an ordinary character.                     *)
(***************************************************************************)
EXTENDS Integers, Sequences, FiniteSets, TLC

VARIABLES
    fs,         \* the filesystem: absolute path (tuple of components) -> node
    ret,        \* outcome of the last completed command
    lastWrite,  \* history: resolved path -> content of the last successful write
    hist,       \* history: which commands have run since the store was empty
    scan,       \* position inside copy_html_with_images, with its iteration log
    dec         \* urlencoding_decode: the input and the outcome

vars == <<fs, ret, lastWrite, hist, scan, dec>>

----------------------------------------------------------------------------
(* Bytes and strings *)

Code ==
    ("<" :> 60) @@ (">" :> 62) @@ ("=" :> 61) @@ ("\"" :> 34) @@ ("'" :> 39)
    @@ (" " :> 32) @@ ("%" :> 37) @@ ("+" :> 43) @@ ("-" :> 45) @@ ("." :> 46)
    @@ ("/" :> 47) @@ (":" :> 58) @@ ("\\" :> 92) @@ ("_" :> 95)
    @@ ("0" :> 48) @@ ("1" :> 49) @@ ("2" :> 50) @@ ("3" :> 51) @@ ("4" :> 52)
    @@ ("5" :> 53) @@ ("6" :> 54) @@ ("7" :> 55) @@ ("8" :> 56) @@ ("9" :> 57)
    @@ ("A" :> 65) @@ ("B" :> 66) @@ ("C" :> 67) @@ ("D" :> 68) @@ ("E" :> 69)
    @@ ("F" :> 70) @@ ("G" :> 71) @@ ("H" :> 72) @@ ("I" :> 73) @@ ("M" :> 77)
    @@ ("P" :> 80) @@ ("R" :> 82) @@ ("S" :> 83) @@ ("T" :> 84) @@ ("Z" :> 90)
    @@ ("a" :> 97) @@ ("b" :> 98) @@ ("c" :> 99) @@ ("d" :> 100) @@ ("e" :> 101)
    @@ ("f" :> 102) @@ ("g" :> 103) @@ ("h" :> 104) @@ ("i" :> 105)
    @@ ("k" :> 107) @@ ("l" :> 108) @@ ("m" :> 109) @@ ("n" :> 110)
    @@ ("o" :> 111) @@ ("p" :> 112) @@ ("r" :> 114) @@ ("s" :> 115)
    @@ ("t" :> 116) @@ ("x" :> 120) @@ ("y" :> 121) @@ ("z" :> 122)

\* The UTF-8 bytes of a tuple of one-character strings.
S(t) == [k \in 1..Len(t) |-> Code[t[k]]]

EAcute == <<195, 169>>          \* U+00E9, lower-case already
DottedI == <<196, 176>>         \* U+0130, lower-cases to "i" U+0307 (3 bytes)
DotlessLower == <<105, 204, 135>>
Kelvin == <<226, 132, 170>>     \* U+212A, lower-cases to "k" (1 byte)
Hangul == <<237, 149, 156>>     \* U+D55C, a three-byte character

MinOf(set) == CHOOSE x \in set : \A y \in set : x <= y

\* s[a..b] on bytes (0-based, end exclusive); the caller checks the boundaries.
Slice(s, a, b) == SubSeq(s, a + 1, b)

IsCont(b) == b >= 128 /\ b < 192

\* str::is_char_boundary
IsCharBoundary(s, i) ==
    \/ i = 0
    \/ i = Len(s)
    \/ (i > 0 /\ i < Len(s) /\ ~IsCont(s[i + 1]))

\* The byte length of the character whose first byte is b.
CharLen(b) == IF b < 128 THEN 1 ELSE IF b < 224 THEN 2 ELSE IF b < 240 THEN 3 ELSE 4

StartsWith(s, p) == Len(s) >= Len(p) /\ SubSeq(s, 1, Len(p)) = p

\* str::find: the byte offset of the first occurrence of pat, or -1 for None.
Find(s, pat) ==
    LET hits == {i \in 0..(Len(s) - Len(pat)) : SubSeq(s, i + 1, i + Len(pat)) = pat}
    IN  IF hits = {} THEN -1 ELSE MinOf(hits)

\* char::to_lowercase of one character, given as its bytes.
LowerChar(c) ==
    IF Len(c) = 1 /\ c[1] >= 65 /\ c[1] <= 90 THEN <<c[1] + 32>>
    ELSE IF c = DottedI THEN DotlessLower
    ELSE IF c = Kelvin THEN <<107>>
    ELSE c

\* Where the characters whose lower case has another byte length start.
Resizing(s) ==
    {i \in 1..Len(s) : \/ (i + 1 <= Len(s) /\ SubSeq(s, i, i + 1) = DottedI)
                       \/ (i + 2 <= Len(s) /\ SubSeq(s, i, i + 2) = Kelvin)}

\* str::to_lowercase: every character lower-cased; the result may differ in
\* byte length from the input.
RECURSIVE ToLowercase(_)
ToLowercase(s) ==
    IF Resizing(s) = {}
    THEN [i \in 1..Len(s) |-> Head(LowerChar(<<s[i]>>))]
    ELSE LET k == MinOf(Resizing(s))
             n == CharLen(s[k])
         IN  [i \in 1..(k - 1) |-> Head(LowerChar(<<s[i]>>))]
             \o LowerChar(SubSeq(s, k, k + n - 1))
             \o ToLowercase(SubSeq(s, k + n, Len(s)))

IsWhitespace(b) == b \in {9, 10, 11, 12, 13, 32}

\* str::trim
Trim(s) ==
    LET keep == {i \in 1..Len(s) : ~IsWhitespace(s[i])}
    IN  IF keep = {} THEN <<>>
        ELSE SubSeq(s, MinOf(keep), CHOOSE x \in keep : \A y \in keep : y <= x)

----------------------------------------------------------------------------
(* urlencoding_decode *)

IsHexDigit(b) == (b >= 48 /\ b <= 57) \/ (b >= 97 /\ b <= 102) \/ (b >= 65 /\ b <= 70)

HexVal(b) == IF b <= 57 THEN b - 48 ELSE IF b >= 97 THEN b - 87 ELSE b - 55

\* u8::from_str_radix(two, 16) for a two-byte str: an optional '+' sign, then
\* hexadecimal digits; -1 stands for Err.
FromStrRadix16(two) ==
    IF two[1] = Code["+"]
    THEN IF IsHexDigit(two[2]) THEN HexVal(two[2]) ELSE -1
    ELSE IF IsHexDigit(two[1]) /\ IsHexDigit(two[2])
         THEN 16 * HexVal(two[1]) + HexVal(two[2])
         ELSE -1

\* String::push(b as char): the UTF-8 encoding of the code point U+00bb.
PushChar(b) == IF b < 128 THEN <<b>> ELSE <<192 + (b \div 64), 128 + (b % 64)>>

Panicked == [ok |-> FALSE, out |-> <<>>]

RECURSIVE DecodeFrom(_, _, _)
DecodeFrom(input, i, result) ==
    IF i >= Len(input) THEN [ok |-> TRUE, out |-> result]
    ELSE IF input[i + 1] = Code["%"] /\ i + 2 < Len(input)
    THEN IF ~(IsCharBoundary(input, i + 1) /\ IsCharBoundary(input, i + 3))
         THEN Panicked                        \* &input[i + 1..i + 3]
         ELSE LET val == FromStrRadix16(Slice(input, i + 1, i + 3))
              IN  IF val >= 0
                  THEN DecodeFrom(input, i + 3, result \o PushChar(val))
                  ELSE DecodeFrom(input, i + 1, result \o PushChar(input[i + 1]))
    ELSE DecodeFrom(input, i + 1, result \o PushChar(input[i + 1]))

urlencoding_decode(input) == DecodeFrom(input, 0, <<>>)

----------------------------------------------------------------------------
(* Paths and the filesystem *)

Slash == Code["/"]
DotDot == S(<<".", ".">>)
Dot == S(<<".">>)

\* The pieces of a path string between its '/' separators.
Pieces(str) ==
    LET cuts == {0} \cup {i \in 1..Len(str) : str[i] = Slash} \cup {Len(str) + 1}
        next(i) == MinOf({j \in cuts : j > i})
        RECURSIVE From(_)
        From(i) == IF i > Len(str) THEN <<>>
                   ELSE <<SubSeq(str, i + 1, next(i) - 1)>> \o From(next(i))
    IN  From(0)

\* Path::components: empty pieces and "." are dropped, ".." is kept.
Components(str) == SelectSeq(Pieces(str), LAMBDA c : c # <<>> /\ c # Dot)

IsAbsolute(str) == Len(str) > 0 /\ str[1] = Slash

\* PathBuf::join: an absolute argument replaces the base.
Join(base, str) == IF IsAbsolute(str) THEN Components(str) ELSE base \o Components(str)

Front(p) == SubSeq(p, 1, Len(p) - 1)
Last(p) == p[Len(p)]

DirNode == [dir |-> TRUE, data |-> <<>>]
FileNode(data) == [dir |-> FALSE, data |-> data]

NoPath == <<<<-1>>>>

IsDirAt(f, p) == p \in DOMAIN f /\ f[p].dir
IsFileAt(f, p) == p \in DOMAIN f /\ ~f[p].dir

\* The operating system's resolution of a path: every component but the last
\* must be a directory, ".." steps to the parent.  NoPath when it fails.
RECURSIVE WalkFrom(_, _, _)
WalkFrom(f, cur, comps) ==
    IF comps = <<>> THEN cur
    ELSE IF ~IsDirAt(f, cur) THEN NoPath
    ELSE IF Head(comps) = DotDot
         THEN WalkFrom(f, IF cur = <<>> THEN cur ELSE Front(cur), Tail(comps))
         ELSE IF Append(cur, Head(comps)) \in DOMAIN f
              THEN WalkFrom(f, Append(cur, Head(comps)), Tail(comps))
              ELSE NoPath

Walk(f, p) == WalkFrom(f, <<>>, p)

\* Path::exists, Path::is_dir, Path::is_file
PathExists(f, p) == Walk(f, p) # NoPath
PathIsDir(f, p) == PathExists(f, p) /\ IsDirAt(f, Walk(f, p))
PathIsFile(f, p) == PathExists(f, p) /\ IsFileAt(f, Walk(f, p))

Put(f, p, node) == [q \in DOMAIN f \cup {p} |-> IF q = p THEN node ELSE f[q]]
Drop(f, p) == [q \in DOMAIN f \ {p} |-> f[q]]

\* fs::create_dir_all: creates every missing directory along the path; fails
\* (keeping what it created) when a component is a regular file.
RECURSIVE MkdirsFrom(_, _, _)
MkdirsFrom(f, cur, comps) ==
    IF comps = <<>> THEN [ok |-> TRUE, fs |-> f]
    ELSE IF Head(comps) = DotDot
         THEN MkdirsFrom(f, IF cur = <<>> THEN cur ELSE Front(cur), Tail(comps))
         ELSE LET n == Append(cur, Head(comps))
              IN  IF n \in DOMAIN f
                  THEN IF f[n].dir THEN MkdirsFrom(f, n, Tail(comps))
                       ELSE [ok |-> FALSE, fs |-> f]
                  ELSE MkdirsFrom(Put(f, n, DirNode), n, Tail(comps))

create_dir_all(f, p) == MkdirsFrom(f, <<>>, p)

\* Opening a path for writing with create + truncate, then writing data.
CreateFile(f, p, data) ==
    IF p = <<>> \/ Last(p) = DotDot THEN [ok |-> FALSE, fs |-> f]
    ELSE LET par == Walk(f, Front(p))
             t == Append(par, Last(p))
         IN  IF par = NoPath \/ ~IsDirAt(f, par) \/ IsDirAt(f, t)
             THEN [ok |-> FALSE, fs |-> f]
             ELSE [ok |-> TRUE, fs |-> Put(f, t, FileNode(data))]

\* fs::copy: the source must be a regular file.
FsCopy(f, from, to) ==
    IF PathIsFile(f, from) THEN CreateFile(f, to, f[Walk(f, from)].data)
    ELSE [ok |-> FALSE, fs |-> f]

\* fs::remove_file
RemoveFile(f, p) ==
    IF PathIsFile(f, p) THEN [ok |-> TRUE, fs |-> Drop(f, Walk(f, p))]
    ELSE [ok |-> FALSE, fs |-> f]

----------------------------------------------------------------------------
(* The file store commands.  Each yields [fs, ok, val]: the filesystem it    *)
(* leaves, whether it returned Ok, and the value returned.                   *)

\* app_local_data_dir(), supplied by the platform.
BaseDir == <<S(<<"a", "p", "p">>)>>

DataDir == Append(BaseDir,
    S(<<"p", "a", "p", "e", "r", "-", "r", "e", "a", "d", "e", "r", "-", "d", "a", "t", "a">>))

Unit == <<>>

Out(f, ok, val) == [fs |-> f, ok |-> ok, val |-> val]

get_data_dir(f) ==
    IF PathExists(f, DataDir) THEN [ok |-> TRUE, fs |-> f]
    ELSE create_dir_all(f, DataDir)

\* Path::file_name: None for the root and for a path ending in "..".
FileName(p) == IF p = <<>> \/ Last(p) = DotDot THEN <<>> ELSE Last(p)

copy_file_to_data(f, source_path) ==
    LET source == Components(source_path)
    IN  IF ~PathExists(f, source) THEN Out(f, FALSE, Unit)
        ELSE IF FileName(source) = <<>> THEN Out(f, FALSE, Unit)
        ELSE LET d == get_data_dir(f)
                 c == FsCopy(d.fs, source, Join(DataDir, FileName(source)))
             IN  IF ~d.ok THEN Out(d.fs, FALSE, Unit)
                 ELSE Out(c.fs, c.ok, IF c.ok THEN FileName(source) ELSE Unit)

\* std::str::from_utf8 succeeds: every lead byte is followed by its
\* continuation bytes and no continuation byte stands alone.
IsUtf8(bytes) ==
    \A i \in 1..Len(bytes) :
        IF IsCont(bytes[i])
        THEN \E j \in 1..(i - 1) :
                /\ ~IsCont(bytes[j]) /\ i - j < CharLen(bytes[j])
                /\ \A k \in (j + 1)..i : IsCont(bytes[k])
        ELSE /\ i + CharLen(bytes[i]) - 1 <= Len(bytes)
             /\ \A k \in (i + 1)..(i + CharLen(bytes[i]) - 1) : IsCont(bytes[k])

read_data_file(f, filename) ==
    LET d == get_data_dir(f)
        path == Join(DataDir, filename)
    IN  IF ~d.ok THEN Out(d.fs, FALSE, Unit)
        ELSE IF PathIsFile(d.fs, path) /\ IsUtf8(d.fs[Walk(d.fs, path)].data)
             THEN Out(d.fs, TRUE, d.fs[Walk(d.fs, path)].data)
             ELSE Out(d.fs, FALSE, Unit)

\* write_data_file as it would be if fs::write left an existing file alone.
write_data_file_keep(f, filename, content) ==
    LET d == get_data_dir(f)
        path == Join(DataDir, filename)
        m == IF path # <<>> /\ ~PathExists(d.fs, Front(path))
             THEN create_dir_all(d.fs, Front(path))
             ELSE [ok |-> TRUE, fs |-> d.fs]
        w == IF PathIsFile(m.fs, path) THEN [ok |-> TRUE, fs |-> m.fs]
             ELSE CreateFile(m.fs, path, content)
    IN  IF ~d.ok THEN Out(d.fs, FALSE, Unit)
        ELSE IF ~m.ok THEN Out(m.fs, FALSE, Unit)
        ELSE Out(w.fs, w.ok, Unit)

write_data_file(f, filename, content) ==
    LET d == get_data_dir(f)
        path == Join(DataDir, filename)
        m == IF path # <<>> /\ ~PathExists(d.fs, Front(path))
             THEN create_dir_all(d.fs, Front(path))
             ELSE [ok |-> TRUE, fs |-> d.fs]
        w == CreateFile(m.fs, path, content)
    IN  IF ~d.ok THEN Out(d.fs, FALSE, Unit)
        ELSE IF ~m.ok THEN Out(m.fs, FALSE, Unit)
        ELSE Out(w.fs, w.ok, Unit)

\* A relative path rendered by to_string_lossy, then replace('\\', "/").
RECURSIVE JoinWithSlash(_)
JoinWithSlash(p) ==
    IF Len(p) = 1 THEN p[1] ELSE p[1] \o <<Slash>> \o JoinWithSlash(Tail(p))

ReplaceBackslash(str) == [i \in 1..Len(str) |-> IF str[i] = Code["\\"] THEN Slash ELSE str[i]]

\* ListedName as it would be if walk pushed the file name, not the path
\* relative to the root.
ListedNameFlat(p) == ReplaceBackslash(Last(p))

ListedName(p) == ReplaceBackslash(JoinWithSlash(SubSeq(p, Len(DataDir) + 1, Len(p))))

Children(f, dir) == {q \in DOMAIN f : Len(q) = Len(dir) + 1 /\ Front(q) = dir}

\* All orders in which a set can be enumerated.
RECURSIVE Orders(_)
Orders(set) ==
    IF set = {} THEN {<<>>}
    ELSE UNION {{<<x>> \o rest : rest \in Orders(set \ {x})} : x \in set}

\* walk(dir): the vectors the walk can push, read_dir's order being the
\* filesystem's choice.  A directory contributes its own walk in place.
RECURSIVE WalkDir(_, _)
RECURSIVE WalkEntries(_, _)
WalkEntries(f, entries) ==
    IF entries = <<>> THEN {<<>>}
    ELSE LET here == IF f[Head(entries)].dir THEN WalkDir(f, Head(entries))
                     ELSE {<<ListedName(Head(entries))>>}
         IN  {a \o b : a \in here, b \in WalkEntries(f, Tail(entries))}

WalkDir(f, dir) == UNION {WalkEntries(f, o) : o \in Orders(Children(f, dir))}

\* The outcomes list_data_files can have.
list_data_files(f) ==
    LET d == get_data_dir(f)
    IN  IF ~d.ok THEN {Out(d.fs, FALSE, Unit)}
        ELSE {Out(d.fs, TRUE, v) : v \in WalkDir(d.fs, DataDir)}

check_data_file_exists(f, filename) ==
    LET d == get_data_dir(f)
    IN  IF ~d.ok THEN Out(d.fs, FALSE, Unit)
        ELSE Out(d.fs, TRUE, PathExists(d.fs, Join(DataDir, filename)))

\* delete_data_file as it would be without the path.exists() test.
delete_data_file_strict(f, filename) ==
    LET d == get_data_dir(f)
        r == RemoveFile(d.fs, Join(DataDir, filename))
    IN  IF ~d.ok THEN Out(d.fs, FALSE, Unit)
        ELSE Out(r.fs, r.ok, Unit)

delete_data_file(f, filename) ==
    LET d == get_data_dir(f)
        path == Join(DataDir, filename)
        r == RemoveFile(d.fs, path)
    IN  IF ~d.ok THEN Out(d.fs, FALSE, Unit)
        ELSE IF PathExists(d.fs, path) THEN Out(r.fs, r.ok, Unit)
        ELSE Out(d.fs, TRUE, Unit)

----------------------------------------------------------------------------
(* copy_html_with_images *)

LookaheadWindow == 1000
SrcSkip == 4
TagSkip == 4

ImgTag == S(<<"<", "i", "m", "g">>)
SrcEq == S(<<"s", "r", "c", "=">>)
DoubleQuote == Code["\""]
SingleQuote == Code["'"]

Min2(a, b) == IF a < b THEN a ELSE b

\* IsRelativeRef as it would be without the "file:" test.
IsRelativeRefNoFile(trimmed) ==
    /\ trimmed # <<>>
    /\ ~StartsWith(trimmed, S(<<"h", "t", "t", "p", ":", "/", "/">>))
    /\ ~StartsWith(trimmed, S(<<"h", "t", "t", "p", "s", ":", "/", "/">>))
    /\ ~StartsWith(trimmed, S(<<"d", "a", "t", "a", ":">>))
    /\ ~StartsWith(trimmed, S(<<"b", "l", "o", "b", ":">>))
    /\ ~StartsWith(trimmed, <<Slash>>)

\* The condition of lines 167-173 on the trimmed attribute value.
IsRelativeRef(trimmed) ==
    /\ trimmed # <<>>
    /\ ~StartsWith(trimmed, S(<<"h", "t", "t", "p", ":", "/", "/">>))
    /\ ~StartsWith(trimmed, S(<<"h", "t", "t", "p", "s", ":", "/", "/">>))
    /\ ~StartsWith(trimmed, S(<<"d", "a", "t", "a", ":">>))
    /\ ~StartsWith(trimmed, S(<<"b", "l", "o", "b", ":">>))
    /\ ~StartsWith(trimmed, S(<<"f", "i", "l", "e", ":">>))
    /\ ~StartsWith(trimmed, <<Slash>>)

NoValue == <<-1>>

\* What one loop iteration did: where it started, the tag offset it computed,
\* the attribute value it extracted, and how far the asset copy got.
NoAsset == [panic |-> FALSE, value |-> NoValue, accepted |-> FALSE, probed |-> FALSE,
            copied |-> FALSE, dest |-> NoPath]

\* Lines 175-189: decode, resolve against the source directory, copy.
CopyAsset(f, src_value, trimmed, source_dir) ==
    LET decoded == urlencoding_decode(trimmed)
        hit == [NoAsset EXCEPT !.value = src_value, !.accepted = TRUE]
        img_source == Join(source_dir, decoded.out)
        img_dest == Join(DataDir, decoded.out)
        m == IF img_dest # <<>> /\ ~PathExists(f, Front(img_dest))
             THEN create_dir_all(f, Front(img_dest)).fs
             ELSE f
        c == FsCopy(m, img_source, img_dest)
    IN  IF ~decoded.ok THEN [fs |-> f, a |-> [hit EXCEPT !.panic = TRUE]]
        ELSE IF ~PathExists(f, img_source) THEN [fs |-> f, a |-> [hit EXCEPT !.probed = TRUE]]
        ELSE [fs |-> c.fs,
              a |-> [hit EXCEPT !.probed = TRUE, !.copied = c.ok, !.dest = img_dest]]

\* Lines 155-194: find src= in the tag region and extract the quoted value.
AssetStep(f, tag_region, source_dir) ==
    LET src_offset == Find(ToLowercase(tag_region), SrcEq)
        src_start == src_offset + SrcSkip
        quote_char == tag_region[src_start + 1]
        value_start == src_start + 1
        end_quote == Find(Slice(tag_region, value_start, Len(tag_region)), <<quote_char>>)
        src_value == Slice(tag_region, value_start, value_start + end_quote)
        trimmed == Trim(src_value)
        none == [fs |-> f, a |-> NoAsset]
    IN  IF src_offset < 0 THEN none
        ELSE IF ~(src_start < Len(tag_region)) THEN none
        ELSE IF quote_char # DoubleQuote /\ quote_char # SingleQuote THEN none
        ELSE IF ~IsCharBoundary(tag_region, value_start)
             THEN [fs |-> f, a |-> [NoAsset EXCEPT !.panic = TRUE]]
        ELSE IF end_quote < 0 THEN none
        ELSE IF ~IsRelativeRef(trimmed)
             THEN [fs |-> f, a |-> [NoAsset EXCEPT !.value = src_value]]
        ELSE CopyAsset(f, src_value, trimmed, source_dir)

\* Lines 147-199: one pass of the while loop, from a state with pc = "loop".
\* st is [pc, content, pos, source_dir, filename, log].
LoopStep(f, st) ==
    LET len == Len(st.content)
        img_pos == Find(ToLowercase(Slice(st.content, st.pos, len)), ImgTag)
        abs_pos == st.pos + img_pos
        search_end == Min2(abs_pos + LookaheadWindow, len)
        r == AssetStep(f, Slice(st.content, abs_pos, search_end), st.source_dir)
        entry(tag, a) == [pos0 |-> st.pos, tag |-> tag, a |-> a]
    IN  IF ~(st.pos < len) THEN [fs |-> f, st |-> [st EXCEPT !.pc = "done"]]
        ELSE IF ~IsCharBoundary(st.content, st.pos)
             THEN [fs |-> f, st |-> [st EXCEPT !.pc = "panicked"]]
        ELSE IF img_pos < 0 THEN [fs |-> f, st |-> [st EXCEPT !.pc = "done"]]
        ELSE IF \/ abs_pos > search_end
                \/ ~IsCharBoundary(st.content, abs_pos)
                \/ ~IsCharBoundary(st.content, search_end)
             THEN [fs |-> f,
                   st |-> [st EXCEPT !.pc = "panicked",
                                     !.log = Append(@, entry(abs_pos, [NoAsset EXCEPT !.panic = TRUE]))]]
        ELSE [fs |-> r.fs,
              st |-> [st EXCEPT !.pc = IF r.a.panic THEN "panicked" ELSE "loop",
                                !.pos = IF r.a.panic THEN @ ELSE abs_pos + TagSkip,
                                !.log = Append(@, entry(abs_pos, r.a))]]

Idle == [pc |-> "idle", content |-> <<>>, pos |-> 0, source_dir |-> <<>>,
         filename |-> <<>>, log |-> <<>>]

\* Lines 119-145: up to the loop.  pc = "failed" when the command returns Err.
BeginIngest(f, source_path) ==
    LET source == Components(source_path)
        filename == FileName(source)
        d == get_data_dir(f)
        c == FsCopy(d.fs, source, Join(DataDir, filename))
        content == IF PathIsFile(c.fs, source) /\ IsUtf8(c.fs[Walk(c.fs, source)].data)
                   THEN c.fs[Walk(c.fs, source)].data
                   ELSE <<>>
        failed == [Idle EXCEPT !.pc = "failed"]
    IN  IF ~PathExists(f, source) \/ filename = <<>> THEN [fs |-> f, st |-> failed]
        ELSE IF ~d.ok THEN [fs |-> d.fs, st |-> failed]
        ELSE IF ~c.ok THEN [fs |-> c.fs, st |-> failed]
        ELSE [fs |-> c.fs,
              st |-> [pc |-> "loop", content |-> content, pos |-> 0,
                      source_dir |-> Front(source), filename |-> filename, log |-> <<>>]]

RECURSIVE RunLoop(_)
RunLoop(x) == IF x.st.pc = "loop" THEN RunLoop(LoopStep(x.fs, x.st)) ELSE x

\* The whole command: [fs, st] with st.pc one of "done" (Ok(filename)),
\* "failed" (Err) and "panicked".
copy_html_with_images(f, source_path) == RunLoop(BeginIngest(f, source_path))

----------------------------------------------------------------------------
(* The world outside the store *)

Str_a_txt == S(<<"a", ".", "t", "x", "t">>)
Str_x_txt == S(<<"x", ".", "t", "x", "t">>)
Str_docs == S(<<"d", "o", "c", "s">>)
Str_p_html == S(<<"p", ".", "h", "t", "m", "l">>)

Quoted(v) == <<DoubleQuote>> \o v \o <<DoubleQuote>>
ImgSrc(attr) == ImgTag \o S(<<" ">>) \o SrcEq \o attr \o S(<<">">>)

\* /docs/p.html of the store specification: one sibling asset and one asset
\* above the document's directory, written with a percent escape.
SmallDoc ==
    ImgSrc(Quoted(Str_a_txt))
    \o ImgSrc(Quoted(S(<<".", ".", "%", "2", "F">>) \o Str_x_txt))

\* The filesystem before the application first runs: the platform's base
\* directory, and the user's documents in /docs and /.
World(doc, assets) ==
    LET fixed == (<<>> :> DirNode) @@ (BaseDir :> DirNode) @@ (<<Str_docs>> :> DirNode)
                 @@ (<<Str_docs, Str_p_html>> :> FileNode(doc))
    IN  [q \in DOMAIN fixed \cup DOMAIN assets |->
            IF q \in DOMAIN fixed THEN fixed[q] ELSE assets[q]]

StoreWorld ==
    World(SmallDoc, (<<Str_docs, Str_a_txt>> :> FileNode(S(<<"3">>)))
                    @@ (<<Str_x_txt>> :> FileNode(S(<<"4">>))))

----------------------------------------------------------------------------
(* The store specification: the commands, each run to completion *)

MaxFiles == 3
MaxContent == 2

Names ==
    { Str_a_txt,
      S(<<"d", "/", "b">>),
      S(<<".", ".", "/">>) \o Str_x_txt,
      S(<<"d">>) }

\* A second name of the file a.txt.
AliasName == Dot \o <<Slash>> \o Str_a_txt

\* Names that alias another name or hold a backslash, for the listing.
OddNames == { AliasName, S(<<"d", "\\", "b">>) }

Contents == {<<Code["0"] + k>> : k \in 1..MaxContent}

SourcePaths ==
    { S(<<"/", "d", "o", "c", "s", "/">>) \o Str_p_html,
      S(<<"/", "d", "o", "c", "s", "/">>) \o Str_a_txt,
      S(<<"/", "d", "o", "c", "s", "/", "n", "o">>) }

IsUnder(root, p) == Len(p) >= Len(root) /\ SubSeq(p, 1, Len(root)) = root

StoredFiles(f) == {p \in DOMAIN f : IsUnder(DataDir, p) /\ ~f[p].dir}

NodeKind(f, p) ==
    IF PathIsDir(f, p) THEN "dir" ELSE IF PathIsFile(f, p) THEN "file" ELSE "none"

\* The last command's observation: val is the returned text or file name, names
\* the returned listing, found the returned flag.
Ret(op, name, ok, val, pre) ==
    [op |-> op, name |-> name, ok |-> ok, val |-> val, pre |-> pre,
     names |-> <<>>, found |-> FALSE]

Forget(lw, touched) == [p \in DOMAIN lw \ touched |-> lw[p]]

NoHist == [pure |-> FALSE, names |-> {}]

NoDec == [input |-> <<>>, done |-> FALSE, res |-> Panicked]

StoreInit ==
    /\ fs = StoreWorld
    /\ ret = Ret("none", <<>>, TRUE, Unit, "none")
    /\ lastWrite = <<>>
    /\ hist = NoHist
    /\ scan = Idle
    /\ dec = NoDec

WriteDataFile(name, content) ==
    \E r \in {write_data_file(fs, name, content)} :
    LET path == Join(DataDir, name)
    IN  /\ Cardinality(StoredFiles(fs)) < MaxFiles \/ PathIsFile(fs, path)
        /\ fs' = r.fs
        /\ ret' = Ret("write", name, r.ok, content,
                      IF PathIsFile(fs, path) /\ fs[Walk(fs, path)].data # content
                      THEN "other" ELSE NodeKind(fs, path))
        /\ lastWrite' =
              IF r.ok
              THEN [q \in DOMAIN lastWrite \cup {Walk(r.fs, path)} |->
                      IF q = Walk(r.fs, path) THEN content ELSE lastWrite[q]]
              ELSE lastWrite
        /\ hist' = IF r.ok /\ hist.pure THEN [hist EXCEPT !.names = @ \cup {name}] ELSE hist
        /\ UNCHANGED <<scan, dec>>

ReadDataFile(name) ==
    \E r \in {read_data_file(fs, name)} :
        /\ fs' = r.fs
        /\ ret' = Ret("read", name, r.ok, r.val, NodeKind(fs, Join(DataDir, name)))
        /\ UNCHANGED <<lastWrite, hist, scan, dec>>

ListDataFiles ==
    \E r \in list_data_files(fs) :
        /\ fs' = r.fs
        /\ ret' = [Ret("list", <<>>, r.ok, Unit, "none") EXCEPT !.names = r.val]
        /\ UNCHANGED <<lastWrite, hist, scan, dec>>

CheckDataFileExists(name) ==
    \E r \in {check_data_file_exists(fs, name)} :
        /\ fs' = r.fs
        /\ ret' = [Ret("exists", name, r.ok, Unit, NodeKind(fs, Join(DataDir, name)))
                      EXCEPT !.found = r.ok /\ r.val]
        /\ UNCHANGED <<lastWrite, hist, scan, dec>>

DeleteDataFile(name) ==
    \E r \in {delete_data_file(fs, name)} :
    LET path == Join(DataDir, name)
    IN  /\ fs' = r.fs
        /\ ret' = Ret("delete", name, r.ok, r.val, NodeKind(fs, path))
        /\ lastWrite' = Forget(lastWrite, {Walk(fs, path)})
        /\ hist' = NoHist
        /\ UNCHANGED <<scan, dec>>

CopyFileToData(source_path) ==
    \E r \in {copy_file_to_data(fs, source_path)} :
        /\ fs' = r.fs
        /\ ret' = Ret("copy", source_path, r.ok, r.val, "none")
        /\ lastWrite' = Forget(lastWrite, {Append(DataDir, FileName(Components(source_path)))})
        /\ hist' = NoHist
        /\ UNCHANGED <<scan, dec>>

CopyHtmlWithImages(source_path) ==
    \E r \in {copy_html_with_images(fs, source_path)} :
    LET dests == {Append(DataDir, FileName(Components(source_path)))}
                 \cup {Walk(r.fs, r.st.log[i].a.dest) : i \in 1..Len(r.st.log)}
    IN  /\ fs' = r.fs
        /\ ret' = Ret("ingest", source_path, r.st.pc = "done",
                      IF r.st.pc = "done" THEN r.st.filename ELSE Unit, r.st.pc)
        /\ lastWrite' = Forget(lastWrite, dests)
        /\ hist' = NoHist
        /\ UNCHANGED <<scan, dec>>

StoreNext ==
    \/ \E name \in Names \cup {AliasName}, content \in Contents : WriteDataFile(name, content)
    \/ \E name \in Names : ReadDataFile(name)
    \/ ListDataFiles
    \/ \E name \in Names : CheckDataFileExists(name)
    \/ \E name \in Names : DeleteDataFile(name)
    \/ \E source_path \in SourcePaths : CopyFileToData(source_path)
    \/ \E source_path \in SourcePaths : CopyHtmlWithImages(source_path)

Spec == StoreInit /\ [][StoreNext]_vars

\* The listing specification: writes into an empty store, then list().
ListInit ==
    /\ fs = StoreWorld
    /\ ret = Ret("none", <<>>, TRUE, Unit, "none")
    /\ lastWrite = <<>>
    /\ hist = [pure |-> TRUE, names |-> {}]
    /\ scan = Idle
    /\ dec = NoDec

\* The listing does not read file contents: every write stores the same text.
ListNext ==
    \/ \E name \in Names \cup OddNames : WriteDataFile(name, <<Code["1"]>>)
    \/ ListDataFiles

ListSpec == ListInit /\ [][ListNext]_vars

----------------------------------------------------------------------------
(* The decoder specification: urlencoding_decode applied to every string of  *)
(* at most MaxLen characters over DecodeChars.                               *)

MaxLen == 3

DecodeChars ==
    { S(<<"%">>), S(<<"2">>), S(<<"0">>), S(<<"C">>), S(<<"z">>), S(<<"+">>), EAcute, Hangul }

RECURSIVE StringsOf(_, _)
StringsOf(chars, n) ==
    IF n = 0 THEN {<<>>}
    ELSE LET shorter == StringsOf(chars, n - 1)
         IN  shorter \cup {c \o t : c \in chars, t \in shorter}

DecodeInit ==
    /\ fs = World(<<>>, <<>>)
    /\ ret = Ret("none", <<>>, TRUE, Unit, "none")
    /\ lastWrite = <<>>
    /\ hist = NoHist
    /\ scan = Idle
    /\ dec \in {[input |-> i, done |-> FALSE, res |-> Panicked] : i \in StringsOf(DecodeChars, MaxLen)}

UrlencodingDecode ==
    /\ ~dec.done
    /\ dec' = [dec EXCEPT !.done = TRUE, !.res = urlencoding_decode(dec.input)]
    /\ UNCHANGED <<fs, ret, lastWrite, hist, scan>>

DecodeSpec == DecodeInit /\ [][UrlencodingDecode]_vars

----------------------------------------------------------------------------
(* The scan specification: one copy_html_with_images call on a fresh store,  *)
(* followed through its while loop, for every document of ScanDocs.          *)

MaxTags == 2
PadSlack == 2

Pad(n) == [i \in 1..n |-> Code[" "]]

Str_img == S(<<"i", "m", "g">>)
Str_f == S(<<"f">>)
Str_a_b == S(<<"a", " ", "b">>)
Str_http_x == S(<<"h", "t", "t", "p", ":", "/", "/", "x">>)

\* src values: siblings that exist, references the classifier rejects,
\* percent escapes, non-ASCII names, a directory, a path above the document.
SrcValues ==
    { Str_a_txt,
      S(<<" ">>) \o Str_a_txt \o S(<<" ">>),
      Str_http_x,
      S(<<"h", "t", "t", "p", "s", ":", "/", "/", "x">>),
      S(<<"d", "a", "t", "a", ":", "x">>),
      S(<<"b", "l", "o", "b", ":", "x">>),
      S(<<"f", "i", "l", "e", ":", "/", "/", "/", "x">>),
      S(<<"/">>) \o Str_a_txt,
      S(<<"H", "T", "T", "P", ":", "/", "/", "x">>),
      <<>>,
      S(<<" ">>),
      S(<<"n", "o">>),
      S(<<"a", "%", "2", "0", "b">>),
      EAcute,
      S(<<"%", "C", "3", "%", "A", "9">>),
      S(<<"%">>) \o Hangul,
      Str_img \o S(<<"/">>) \o Str_f,
      Str_img,
      S(<<".", ".", "/">>) \o Str_x_txt }

SingleQuoted(v) == <<SingleQuote>> \o v \o <<SingleQuote>>

\* The shapes a tag takes around a value.
TagShapes(v) ==
    { ImgSrc(Quoted(v)),
      ImgSrc(SingleQuoted(v)),
      S(<<"<", "I", "M", "G", " ", "S", "R", "C", "=">>) \o Quoted(v) \o S(<<">">>),
      ImgSrc(v),
      ImgTag \o S(<<" ">>) \o SrcEq \o <<DoubleQuote>> \o v,
      ImgTag \o S(<<" ", "a", "l", "t", "=">>) \o Quoted(v) \o S(<<">">>),
      ImgTag \o S(<<" ", "d", "a", "t", "a", "-">>) \o SrcEq \o Quoted(S(<<"n", "o">>))
          \o S(<<" ">>) \o SrcEq \o Quoted(v) \o S(<<">">>) }

OneTagDocs == UNION {TagShapes(v) : v \in SrcValues}

\* Text before the first tag: none, markup, characters whose lower case has
\* another byte length.
Prefixes ==
    { <<>>, S(<<"<", "p", ">">>), DottedI, Kelvin,
      Kelvin \o Kelvin \o Kelvin \o S(<<"a", "b", "c", "d", "e", "f">>) }

TagSet ==
    { ImgSrc(Quoted(Str_a_txt)),
      ImgSrc(Quoted(Str_http_x)),
      ImgSrc(Quoted(Str_img \o S(<<"/">>) \o Str_f)),
      ImgTag \o S(<<">">>) }

ManyTagDocs == {p \o t : p \in Prefixes, t \in StringsOf(TagSet, MaxTags)}

\* <img, padding, src="a.txt": the closing quote falls LookaheadWindow bytes
\* after the tag start when the padding is LookaheadWindow - 14 long.
EdgePad == LookaheadWindow - 14

LongDocs ==
    {p \o ImgTag \o Pad(n) \o SrcEq \o Quoted(Str_a_txt) \o S(<<">">>) :
        p \in {<<>>, DottedI}, n \in (EdgePad - PadSlack)..(EdgePad + PadSlack)}
    \cup {ImgTag \o Pad(LookaheadWindow) \o SrcEq \o Quoted(Str_a_txt) \o S(<<">">>)}
    \cup {ImgSrc(Quoted(Str_a_txt)) \o Pad(n) \o Hangul :
            n \in (EdgePad - PadSlack)..(EdgePad + PadSlack)}

ScanDocs == OneTagDocs \cup ManyTagDocs \cup LongDocs

ScanWorld(doc) ==
    World(doc, (<<Str_docs, Str_a_txt>> :> FileNode(S(<<"3">>)))
               @@ (<<Str_x_txt>> :> FileNode(S(<<"4">>)))
               @@ (<<Str_docs, Str_a_b>> :> FileNode(S(<<"5">>)))
               @@ (<<Str_docs, EAcute>> :> FileNode(S(<<"6">>)))
               @@ (<<Str_docs, Str_img>> :> DirNode)
               @@ (<<Str_docs, Str_img, Str_f>> :> FileNode(S(<<"7">>))))

ScanInit ==
    /\ fs \in {ScanWorld(doc) : doc \in ScanDocs}
    /\ ret = Ret("none", <<>>, TRUE, Unit, "none")
    /\ lastWrite = <<>>
    /\ hist = NoHist
    /\ scan = Idle
    /\ dec = NoDec

\* Lines 119-145.
StartIngest(source_path) ==
    \E r \in {BeginIngest(fs, source_path)} :
        /\ scan.pc = "idle"
        /\ fs' = r.fs
        /\ scan' = r.st
        /\ ret' = IF r.st.pc = "failed" THEN Ret("ingest", source_path, FALSE, Unit, "failed")
                  ELSE ret
        /\ UNCHANGED <<lastWrite, hist, dec>>

\* One pass of the loop of lines 147-199; leaving it returns Ok(filename).
ScanIteration ==
    /\ scan.pc = "loop"
    /\ \E r \in {LoopStep(fs, scan)} :
        /\ fs' = r.fs
        /\ scan' = r.st
        /\ ret' = IF r.st.pc = "done" THEN Ret("ingest", <<>>, TRUE, scan.filename, "done")
                  ELSE IF r.st.pc = "panicked" THEN Ret("ingest", <<>>, FALSE, Unit, "panicked")
                  ELSE ret
        /\ UNCHANGED <<lastWrite, hist, dec>>

ScanNext ==
    \/ \E source_path \in SourcePaths : StartIngest(source_path)
    \/ ScanIteration

ScanSpec == ScanInit /\ [][ScanNext]_vars

----------------------------------------------------------------------------
(* What the specification says, stated apart from the code above *)

\* The characters of a UTF-8 string, each as its bytes.
RECURSIVE Chars(_)
Chars(s) ==
    IF s = <<>> THEN <<>>
    ELSE <<SubSeq(s, 1, CharLen(s[1]))>> \o Chars(SubSeq(s, CharLen(s[1]) + 1, Len(s)))

IsHexChar(c) == Len(c) = 1 /\ IsHexDigit(c[1])

\* The left-to-right rule of the percent-decoder: '%' and two hexadecimal
\* digits give the character with that value, anything else stays as it is.
RECURSIVE RuleDecode(_)
RuleDecode(cs) ==
    IF cs = <<>> THEN <<>>
    ELSE IF cs[1] = <<Code["%"]>> /\ Len(cs) >= 3 /\ IsHexChar(cs[2]) /\ IsHexChar(cs[3])
         THEN PushChar(16 * HexVal(cs[2][1]) + HexVal(cs[3][1])) \o RuleDecode(SubSeq(cs, 4, Len(cs)))
         ELSE cs[1] \o RuleDecode(Tail(cs))

\* C5: for every input string urlencoding_decode returns, and returns what
\* the left-to-right rule gives: %XX with two hexadecimal digits becomes the
\* byte they denote, everything else is emitted unchanged.
C5_DecoderFollowsRule ==
    dec.done => dec.res = [ok |-> TRUE, out |-> RuleDecode(Chars(dec.input))]

\* C3: once the source exists and its primary copy succeeded, ingest returns
\* Ok with the source's basename, whatever the document holds.
C3_SecondaryStepsNonFatal ==
    /\ scan.pc # "panicked"
    /\ scan.pc = "done" => ret.ok /\ ret.val = scan.filename

\* C1: nothing outside the Store Root is created or changed by the commands:
\* every path outside it is a path of the initial filesystem, unchanged.
C1_Confined ==
    \A p \in DOMAIN fs :
        ~IsUnder(DataDir, p) => p \in DOMAIN StoreWorld /\ fs[p] = StoreWorld[p]

LowerAscii(b) == IF b >= 65 /\ b <= 90 THEN b + 32 ELSE b

MatchesAt(content, t, pat) ==
    /\ t + Len(pat) <= Len(content)
    /\ \A k \in 1..Len(pat) : LowerAscii(content[t + k]) = pat[k]

\* The offsets of the document at which "<img" stands, in any letter case.
TagStarts(content) == {t \in 0..Len(content) : MatchesAt(content, t, ImgTag)}

\* The first tag at or after pos, or -1.
TrueFind(content, pos) ==
    LET later == {t \in TagStarts(content) : t >= pos}
    IN  IF later = {} THEN -1 ELSE MinOf(later)

\* The end of the LookaheadWindow characters that start at offset t.
WindowEnd(content, t) ==
    LET starts == {i \in t..(Len(content) - 1) : ~IsCont(content[i + 1])}
    IN  IF Cardinality(starts) <= LookaheadWindow THEN Len(content)
        ELSE CHOOSE e \in starts : Cardinality({i \in starts : i < e}) = LookaheadWindow

IsQuote(b) == b = DoubleQuote \/ b = SingleQuote

\* Where, inside [t, e), a src= stands that is followed by a quote whose
\* matching quote also lies inside [t, e).
QuotedSrcs(content, t, e) ==
    {i \in t..(e - 6) :
        /\ MatchesAt(content, i, SrcEq)
        /\ IsQuote(content[i + 5])
        /\ \E j \in (i + 5)..(e - 1) : content[j + 1] = content[i + 5]}

\* The value of the quoted attribute whose src= stands at offset i.
QuotedValue(content, i) ==
    LET close == MinOf({j \in (i + 5)..(Len(content) - 1) : content[j + 1] = content[i + 5]})
    IN  Slice(content, i + 5, close)

\* The src attributes proper: src= after white space, not the tail of data-src=.
SrcAttributes(content, t, e) ==
    {i \in QuotedSrcs(content, t, e) : i > 0 /\ IsWhitespace(content[i])}

RejectedPrefixes ==
    { S(<<"h", "t", "t", "p", ":", "/", "/">>), S(<<"h", "t", "t", "p", "s", ":", "/", "/">>),
      S(<<"d", "a", "t", "a", ":">>), S(<<"b", "l", "o", "b", ":">>),
      S(<<"f", "i", "l", "e", ":">>), S(<<"/">>) }

\* The classifier of the specification, on the untrimmed value.
SpecAccepts(v) == Trim(v) # <<>> /\ \A p \in RejectedPrefixes : ~StartsWith(Trim(v), p)

\* Percent-decoding into raw bytes: the file name a reference denotes.
RECURSIVE RawDecode(_)
RawDecode(s) ==
    IF s = <<>> THEN <<>>
    ELSE IF s[1] = Code["%"] /\ Len(s) >= 3 /\ IsHexDigit(s[2]) /\ IsHexDigit(s[3])
         THEN <<16 * HexVal(s[2]) + HexVal(s[3])>> \o RawDecode(SubSeq(s, 4, Len(s)))
         ELSE <<s[1]>> \o RawDecode(Tail(s))

\* The reference v of a document in source_dir names an existing file under
\* that directory.
NamesSibling(f, source_dir, v) ==
    LET rel == RawDecode(Trim(v))
    IN  /\ SpecAccepts(v)
        /\ PathIsFile(f, Join(source_dir, rel))
        /\ IsUnder(source_dir, Walk(f, Join(source_dir, rel)))
        /\ Len(Walk(f, Join(source_dir, rel))) > Len(source_dir)

StoredAs(f, source_dir, v) ==
    LET rel == RawDecode(Trim(v))
    IN  /\ PathIsFile(f, Join(DataDir, rel))
        /\ f[Walk(f, Join(DataDir, rel))].data = f[Walk(f, Join(source_dir, rel))].data

\* C2: after a successful ingest the document is stored under its basename and
\* every tag whose quoted src attribute lies in the window and names an
\* existing file under the document's directory has that file in the store,
\* at the same relative path, with the same bytes.
C2_AssetsCopied ==
    scan.pc = "done" =>
        /\ PathIsFile(fs, Append(DataDir, scan.filename))
        /\ \A t \in TagStarts(scan.content) :
              LET attrs == SrcAttributes(scan.content, t, WindowEnd(scan.content, t))
              IN  attrs # {} =>
                    LET v == QuotedValue(scan.content, MinOf(attrs))
                    IN  NamesSibling(fs, scan.source_dir, v) => StoredAs(fs, scan.source_dir, v)

\* C4: a value is taken as a relative path exactly when, trimmed, it is not
\* empty and starts with none of http://, https://, data:, blob:, file:, /;
\* only such a value is looked up or copied.
C4_Classifier ==
    \A k \in 1..Len(scan.log) :
        LET a == scan.log[k].a
        IN  /\ a.value # NoValue => (a.accepted <=> SpecAccepts(a.value))
            /\ a.value = NoValue => ~a.accepted
            /\ a.probed => a.accepted
            /\ (a.copied \/ a.dest # NoPath) => a.probed

C4_Witness ==
    /\ scan.pc = "done"
    /\ \E k \in 1..Len(scan.log) : scan.log[k].a.accepted /\ scan.log[k].a.copied
    /\ \E k \in 1..Len(scan.log) :
          /\ scan.log[k].a.value = Str_http_x
          /\ ~scan.log[k].a.accepted /\ ~scan.log[k].a.probed

\* C6: a tag with no complete quoted src= inside the LookaheadWindow
\* characters from its start has no copy attempted for it.
C6_BoundedLookahead ==
    \A k \in 1..Len(scan.log) :
        LET t == TrueFind(scan.content, scan.log[k].pos0)
        IN  (t >= 0 /\ QuotedSrcs(scan.content, t, WindowEnd(scan.content, t)) = {})
                => scan.log[k].a.dest = NoPath /\ ~scan.log[k].a.copied

\* C10: every iteration examines the first tag at or after the scan position
\* and moves to 4 bytes past its start, so the position grows, no tag is
\* examined twice, and the loop ends when no tag is left.
C10_ScanAdvances ==
    /\ \A k \in 1..Len(scan.log) :
          LET t == TrueFind(scan.content, scan.log[k].pos0)
              after == IF k < Len(scan.log) THEN scan.log[k + 1].pos0 ELSE scan.pos
          IN  /\ scan.log[k].tag = t
              /\ scan.pc # "panicked" => after = t + 4 /\ after > scan.log[k].pos0
              /\ \A j \in 1..(k - 1) : TrueFind(scan.content, scan.log[j].pos0) < t
    /\ scan.pc = "done" => TrueFind(scan.content, scan.pos) = -1
    /\ scan.pc # "panicked"

Range(seq) == {seq[i] : i \in 1..Len(seq)}

\* A relative name in normal form: non-empty components other than "." and
\* ".." separated by single forward slashes, and no backslash.
IsNormalName(name) ==
    /\ name # <<>>
    /\ \A i \in 1..Len(name) : name[i] # Code["\\"]
    /\ \A i \in 1..Len(Pieces(name)) : Pieces(name)[i] \notin {<<>>, Dot, DotDot}

ListsExactly(names) ==
    /\ ret.ok
    /\ Range(ret.names) = names
    /\ Len(ret.names) = Cardinality(names)

LeadsOut(name) ==
    /\ Len(name) > 3
    /\ SubSeq(name, 1, 3) = DotDot \o <<Slash>>
    /\ IsNormalName(SubSeq(name, 4, Len(name)))

RemovesOnly(f, name) ==
    LET first == delete_data_file(f, name)
    IN  /\ \A p \in DOMAIN first.fs : p \in DOMAIN f /\ first.fs[p] = f[p]
        /\ DOMAIN f \ DOMAIN first.fs \subseteq {Walk(f, Join(DataDir, name))}
        /\ \A p \in DOMAIN f \ DOMAIN first.fs : ~f[p].dir

DeletesCleanly(f, name) ==
    LET first == delete_data_file(f, name)
        second == delete_data_file(first.fs, name)
    IN  /\ first.ok /\ second.ok
        /\ ~PathExists(first.fs, Join(DataDir, name))
        /\ ~check_data_file_exists(first.fs, name).val
        /\ second.fs = first.fs
        /\ RemovesOnly(f, name)

\* C8 (as stated): a delete succeeds for every name, present or not, removes
\* at most the file at that name, leaves the name absent, and a second delete
\* succeeds and changes nothing.
C8_DeleteIdempotent ==
    /\ ret.op = "delete" =>
          /\ ret.ok
          /\ ~PathExists(fs, Join(DataDir, ret.name))
          /\ delete_data_file(fs, ret.name) = Out(fs, TRUE, Unit)
    /\ \A name \in Names : get_data_dir(fs).ok => RemovesOnly(get_data_dir(fs).fs, name)

\* C8 (amended): the same, for every name that does not resolve to a
\* directory; on a directory delete fails and changes nothing.
C8_DeleteIdempotentFiles ==
    /\ (ret.op = "delete" /\ ret.pre # "dir") =>
          /\ ret.ok
          /\ ~PathExists(fs, Join(DataDir, ret.name))
          /\ delete_data_file(fs, ret.name) = Out(fs, TRUE, Unit)
    /\ (ret.op = "delete" /\ ret.pre = "dir") =>
          /\ ~ret.ok
          /\ PathIsDir(fs, Join(DataDir, ret.name))
    /\ \A name \in Names :
          LET f == get_data_dir(fs).fs
          IN  get_data_dir(fs).ok =>
                IF PathIsDir(f, Join(DataDir, name))
                THEN ~delete_data_file(f, name).ok /\ delete_data_file(f, name).fs = f
                ELSE DeletesCleanly(f, name)

C8_Witness ==
    /\ ret.op = "delete" /\ ret.ok /\ ret.pre = "file"
    /\ ret.name = S(<<"d", "/", "b">>)
    /\ PathIsDir(fs, Join(DataDir, S(<<"d">>)))
    /\ PathIsFile(fs, Join(DataDir, Str_a_txt))
    /\ delete_data_file(fs, ret.name) = Out(fs, TRUE, Unit)

====
